---- MODULE Spec2Model ----
(***************************************************************************)
(* Product-discovery assistant: the LangGraph pipeline of                  *)
(* assistant_graph.py (router -> planner -> retriever -> answerer), the    *)
(* MCP tools it calls (mcp_server/server.py, mcp_server/web_search.py) and *)
(* the retrieval engine behind rag.search (rag/search.py).                 *)
(*                                                                         *)
(* Python values are encoded as follows.                                   *)
(*   str            a TLA+ string                                          *)
(*   dict           a function whose domain is the set of keys present     *)
(*   list           a sequence                                             *)
(*   Optional value a cell: None == <<>>, a present value v is <<v>>       *)
(*   float          an integer (prices and ratings are only compared)      *)
(***************************************************************************)
EXTENDS Integers, Sequences, FiniteSets, TLC

VARIABLES
    pc,          \* where the request is: idle, router, planner, retriever,
                 \* retriever_web, answerer, done (END) or crashed (an exception
                 \* left run_pipeline)
    state,       \* the State dict threaded through the nodes
    calls,       \* how many times each external call was made
    classified,  \* router_node's local intent: the classifier's parsed answer
    top3_pre,    \* answerer_node's local top3 as selected
    top3,        \* answerer_node's local top3 after the merge loop
    clock,       \* web_search.py: what time.time() returns, in seconds
    cache,       \* web_search.py: _cache, cache_key -> (ts, payload)
    last_call_ts,\* web_search.py: _last_call_ts
    callers,     \* the web_search calls in progress, one per serving thread
    ticks,       \* how many times the clock has advanced
    outbound,    \* when the latest requests.post to the search API was issued
    module_state,\* assistant_graph.py: the module-level initial_state object
    tool         \* one rag.search / search_products call: its request, what the
                 \* index returns for it, and its result

\* the process-wide state of web_search.py and its callers
wsvars == <<clock, cache, last_call_ts, callers, ticks, outbound>>

\* the state of one request in assistant_graph.py
pvars == <<pc, state, calls, classified, top3_pre, top3>>

vars == <<pc, state, calls, classified, top3_pre, top3,
          clock, cache, last_call_ts, callers, ticks, outbound,
          module_state, tool>>

-----------------------------------------------------------------------------
(* Python values *)

None == <<>>

Some(v) == <<v>>

EmptyDict == <<>>

\* d.get(k) for a dict whose values are cells
get(d, k) == IF k \in DOMAIN d THEN d[k] ELSE None

\* x in list
InList(x, l) == \E i \in 1..Len(l) : l[i] = x

\* bool(cell) for a cell holding a number: None and 0 are falsy
TruthyNum(c) == c # None /\ c[1] # 0

\* bool(cell) for a cell holding a string: None and "" are falsy
TruthyStr(c) == c # None /\ c[1] # ""

-----------------------------------------------------------------------------
(* str methods *)

UpperChars == "ABCDEFGHIJKLMNOPQRSTUVWXYZ"

LowerChars == "abcdefghijklmnopqrstuvwxyz"

LowerOf ==
    [c \in { SubSeq(UpperChars, i, i) : i \in 1..Len(UpperChars) } |->
        LET i == CHOOSE k \in 1..Len(UpperChars) : SubSeq(UpperChars, k, k) = c
        IN  SubSeq(LowerChars, i, i)]

lowerChar(c) == IF c \in DOMAIN LowerOf THEN LowerOf[c] ELSE c

RECURSIVE lower(_)
\* str.lower()
lower(s) ==
    IF Len(s) = 0 THEN ""
    ELSE lowerChar(SubSeq(s, 1, 1)) \o lower(SubSeq(s, 2, Len(s)))

RECURSIVE lstrip(_)
lstrip(s) ==
    IF Len(s) > 0 /\ SubSeq(s, 1, 1) = " " THEN lstrip(SubSeq(s, 2, Len(s))) ELSE s

RECURSIVE rstrip(_)
rstrip(s) ==
    IF Len(s) > 0 /\ SubSeq(s, Len(s), Len(s)) = " "
    THEN rstrip(SubSeq(s, 1, Len(s) - 1)) ELSE s

\* str.strip()
strip(s) == rstrip(lstrip(s))

\* str.startswith(p)
startswith(s, p) == Len(p) <= Len(s) /\ SubSeq(s, 1, Len(p)) = p

\* sub in s
contains(s, sub) ==
    \E i \in 1..(Len(s) + 1) :
        i + Len(sub) - 1 <= Len(s) /\ SubSeq(s, i, i + Len(sub) - 1) = sub

-----------------------------------------------------------------------------
(* difflib.SequenceMatcher(None, a, b).ratio(): Ratcliff/Obershelp *)

\* the matching blocks a[i..i+k-1] = b[j..j+k-1]
Blocks(a, b) ==
    { t \in (1..Len(a)) \X (1..Len(b)) \X (1..Len(a)) :
        /\ t[1] + t[3] - 1 <= Len(a)
        /\ t[2] + t[3] - 1 <= Len(b)
        /\ SubSeq(a, t[1], t[1] + t[3] - 1) = SubSeq(b, t[2], t[2] + t[3] - 1) }

\* the longest block; of those the one starting earliest in a; of those the
\* one starting earliest in b
find_longest_match(a, b) ==
    LET bs == Blocks(a, b)
    IN  IF bs = {} THEN <<1, 1, 0>>
        ELSE CHOOSE t \in bs :
               \A u \in bs :
                  \/ t[3] > u[3]
                  \/ (t[3] = u[3] /\ t[1] < u[1])
                  \/ (t[3] = u[3] /\ t[1] = u[1] /\ t[2] <= u[2])

RECURSIVE matches(_, _)
\* the total size of get_matching_blocks()
matches(a, b) ==
    IF Len(a) = 0 \/ Len(b) = 0 THEN 0
    ELSE LET m == find_longest_match(a, b)
         IN  IF m[3] = 0 THEN 0
             ELSE m[3]
                  + matches(SubSeq(a, 1, m[1] - 1), SubSeq(b, 1, m[2] - 1))
                  + matches(SubSeq(a, m[1] + m[3], Len(a)),
                            SubSeq(b, m[2] + m[3], Len(b)))

\* ratio() > num/den, with ratio() = 2.0*M/T and 1.0 when T = 0
RatioAbove(a, b, num, den) ==
    LET T == Len(a) + Len(b)
    IN  IF T = 0 THEN den > num
        ELSE 2 * matches(a, b) * den > num * T

\* ratio() >= num/den
RatioAtLeast(a, b, num, den) ==
    LET T == Len(a) + Len(b)
    IN  IF T = 0 THEN den >= num
        ELSE 2 * matches(a, b) * den >= num * T

-----------------------------------------------------------------------------
(* assistant_graph.py: domain setup, shared state, fixed answers *)

ALLOWED_CATEGORIES ==
    << "toy", "toys", "games", "game", "board game", "board games",
       "puzzle", "puzzles", "action figure", "action figures",
       "kids toy", "children toy", "plush", "lego" >>

simple_greetings ==
    << "hi", "hello", "hey", "good morning", "good afternoon", "good evening" >>

GREETING_ANSWER == "Hello! What product can I help you find today?"

OUT_OF_DOMAIN_ANSWER ==
    "Sorry - my product database currently focuses on Toys & Games. "
    \o "I might not have good recommendations for this category. "
    \o "Try asking for a toy, puzzle, board game, LEGO set, or kids item."

NO_RESULTS_ANSWER ==
    "Sorry, I couldn't find matching products. "
    \o "Try adjusting your budget or adding more details."

initial_state ==
    [ query        |-> "",
      intent       |-> EmptyDict,
      constraints  |-> EmptyDict,
      plan         |-> EmptyDict,
      rag_results  |-> <<>>,
      web_results  |-> <<>>,
      final_answer |-> "",
      citations    |-> EmptyDict,
      products     |-> <<>> ]

NoCalls ==
    [ router_llm |-> 0, planner_llm |-> 0, rag |-> 0, web |-> 0,
      merge |-> 0, answer_llm |-> 0, rag_constraints |-> None ]

\* json.loads gave a value that is no object (a list, a number, a string):
\* it has no .get
JsonNonObject == [json_array |-> <<>>]

IsDict(v) == "json_array" \notin DOMAIN v

-----------------------------------------------------------------------------
(* The inputs: user queries and what the language model may answer *)

Queries ==
    { "hello", " Hi ", "hey, there", "Good morning, friend",
      "hello there", "high chair" }

ProductTypes == { "", "LEGO set", "rc boat motor", "Toyota" }

Budgets == { 0, 10 }

ConstraintDicts ==
    { [budget |-> Some(b)] : b \in Budgets }
    \cup { [budget |-> Some(10), brand |-> Some("Mattel"), category |-> Some("Puzzles"),
             material |-> Some("wood")] }

Key(k, S) == { EmptyDict } \cup { k :> v : v \in S }

\* the objects the classifier may return
RouterDicts ==
    { it @@ pt @@ cs @@ nl :
        it \in { "intent_type" :> Some(t) :
                   t \in { "greeting", "product_query", "smalltalk" } },
        pt \in Key("product_type", { Some(p) : p \in ProductTypes }),
        cs \in Key("constraints", ConstraintDicts),
        nl \in { "needs_live_price" :> b : b \in BOOLEAN } }

\* response.content of router_llm.invoke, or the call raising
RouterResponses ==
    { [kind |-> "raise"], [kind |-> "text", content |-> "I think you want a toy"],
      [kind |-> "nonobject"] }
    \cup { [kind |-> "object", value |-> d] : d \in RouterDicts }

ToolLists ==
    { <<>>, <<"rag.search">>, <<"rag.search", "web.search">>, <<"web.search">> }

ConflictPolicies == { "web_price_overwrites", "prefer_catalog" }

\* the objects the planner may return
PlannerDicts ==
    Key("tools", ToolLists)
    \cup { [tools |-> <<"rag.search", "web.search">>, conflict_policy |-> Some(cp)] :
             cp \in ConflictPolicies }

\* response.content of planner_llm.invoke, or the call raising
PlannerResponses ==
    { [kind |-> "raise"], [kind |-> "text", content |-> "Use the catalog"],
      [kind |-> "nonobject"] }
    \cup { [kind |-> "object", value |-> d] : d \in PlannerDicts }

\* a parse fallback that keeps no copy of the unparsable text
json_loads_or_error_drops_raw(resp) ==
    CASE resp.kind = "object"    -> resp.value
      [] resp.kind = "nonobject" -> JsonNonObject
      [] resp.kind = "text"      -> [error |-> Some("JSON parsing failed")]

\* json.loads(response.content) inside try/except
json_loads_or_error(resp) ==
    CASE resp.kind = "object"    -> resp.value
      [] resp.kind = "nonobject" -> JsonNonObject
      [] resp.kind = "text"      ->
            [error |-> Some("JSON parsing failed"), raw |-> Some(resp.content)]

-----------------------------------------------------------------------------
(* mcp_server/web_search.py: the module's state and its callers *)

CACHE_TTL_SECONDS == 180

MIN_INTERVAL_SECONDS == 1

\* max_results of call_web_tool as the retriever calls it
WEB_MAX_RESULTS == 3

\* the threads of the tool server that may run web_search at the same time
Threads == { "t1", "t2" }

\* the queries web.search is asked
WebQueries == { "lego", "uno" }

\* time.time() when the module is loaded
StartTime == 1000

\* how many web_search calls one thread makes
MaxRequests == 1

\* how many times the clock is observed to advance
MaxTicks == 2

\* the clock advances by a second or by the cache's time to live
TickSizes == { 1, CACHE_TTL_SECONDS }

\* a thread that is not inside web_search
idle_caller ==
    [ pc |-> "idle", key |-> <<>>, now |-> 0, wake |-> 0,
      result |-> None, raised |-> FALSE, n |-> 0 ]

\* _cache = {} and _last_call_ts = 0.0 at import
web_search_loaded ==
    /\ clock = StartTime
    /\ cache = <<>>
    /\ last_call_ts = 0
    /\ callers = [t \in Threads |-> idle_caller]
    /\ ticks = 0
    /\ outbound = None

\* no rag.search call is being served
idle_tool == [pc |-> "idle"]

-----------------------------------------------------------------------------
(* run_pipeline and the router *)

Init ==
    /\ pc = "idle"
    /\ state = initial_state
    /\ calls = NoCalls
    /\ classified = EmptyDict
    /\ top3_pre = <<>>
    /\ top3 = <<>>
    /\ web_search_loaded
    /\ module_state = initial_state
    /\ tool = idle_tool

\* a run_pipeline without the copy: the query is written into the module-level
\* initial_state itself
run_pipeline_without_copy ==
    /\ pc \in { "idle", "done", "crashed" }
    /\ \E q \in Queries :
         /\ module_state' = [module_state EXCEPT !.query = q]
         /\ state' = module_state'
    /\ pc' = "router"
    /\ calls' = NoCalls
    /\ classified' = EmptyDict
    /\ top3_pre' = <<>>
    /\ top3' = <<>>
    /\ UNCHANGED <<wsvars, tool>>

\* run_pipeline: a shallow copy of the module-level initial_state with the
\* query set; one execution follows another (the call counts and the nodes'
\* locals are those of the execution in progress)
run_pipeline ==
    /\ pc \in { "idle", "done", "crashed" }
    /\ \E q \in Queries : state' = [module_state EXCEPT !.query = q]
    /\ pc' = "router"
    /\ calls' = NoCalls
    /\ classified' = EmptyDict
    /\ top3_pre' = <<>>
    /\ top3' = <<>>
    /\ UNCHANGED <<wsvars, module_state, tool>>

\* a greeting check that forgets the "greeting," prefix
is_simple_greeting_exact_only(lower_q) ==
    \E i \in 1..Len(simple_greetings) : lower_q = simple_greetings[i]

\* the hard-coded greeting check
is_simple_greeting(lower_q) ==
    \E i \in 1..Len(simple_greetings) :
        \/ lower_q = simple_greetings[i]
        \/ startswith(lower_q, simple_greetings[i] \o ",")

\* a domain check that compares for equality instead of containment
is_in_domain_equality(product_type) ==
    \E i \in 1..Len(ALLOWED_CATEGORIES) : product_type = ALLOWED_CATEGORIES[i]

\* any(keyword in product_type for keyword in ALLOWED_CATEGORIES)
is_in_domain(product_type) ==
    \E i \in 1..Len(ALLOWED_CATEGORIES) : contains(product_type, ALLOWED_CATEGORIES[i])

\* (intent.get("product_type") or "").lower()
product_type_of(intent) ==
    LET c == get(intent, "product_type")
    IN  IF TruthyStr(c) THEN lower(c[1]) ELSE ""

\* the router's result for a classifier answer that is an object (or the
\* parse-error object)
route(st, intent) ==
    IF get(intent, "intent_type") = Some("greeting")
    THEN [st EXCEPT !.intent = [intent_type |-> Some("greeting")],
                    !.final_answer = GREETING_ANSWER,
                    !.products = <<>>]
    ELSE LET product_type == product_type_of(intent)
         IN  IF product_type # "" /\ ~is_in_domain(product_type)
             THEN [st EXCEPT !.intent = [intent_type |-> Some("out_of_domain"),
                                         product_type |-> Some(product_type)],
                             !.final_answer = OUT_OF_DOMAIN_ANSWER,
                             !.products = <<>>]
             ELSE [st EXCEPT !.intent = intent,
                             !.constraints =
                                 IF "constraints" \in DOMAIN intent
                                 THEN intent.constraints ELSE EmptyDict]

router_fast_path ==
    /\ pc = "router"
    /\ is_simple_greeting(lower(strip(state.query)))
    /\ state' = [state EXCEPT !.intent = [intent_type |-> Some("greeting")],
                              !.final_answer = GREETING_ANSWER,
                              !.products = <<>>]
    /\ pc' = "planner"
    /\ UNCHANGED <<calls, classified, top3_pre, top3, wsvars, module_state, tool>>

router_llm_path ==
    /\ pc = "router"
    /\ ~is_simple_greeting(lower(strip(state.query)))
    /\ calls' = [calls EXCEPT !.router_llm = @ + 1]
    /\ \E resp \in RouterResponses :
         IF resp.kind = "raise" \/ resp.kind = "nonobject"
         THEN \* the call raised, or intent.get raised AttributeError
              /\ pc' = "crashed"
              /\ UNCHANGED <<state, classified>>
         ELSE /\ classified' = json_loads_or_error(resp)
              /\ state' = route(state, json_loads_or_error(resp))
              /\ pc' = "planner"
    /\ UNCHANGED <<top3_pre, top3, wsvars, module_state, tool>>

router_node == router_fast_path \/ router_llm_path

-----------------------------------------------------------------------------
(* the planner *)

intent_type_of(st) == get(st.intent, "intent_type")

\* a guard that lets only greetings skip the planner and the retriever
is_product_query_only_greeting_skips(st) == intent_type_of(st) # Some("greeting")

\* the planner and the retriever act only on a product query
is_product_query(st) == intent_type_of(st) = Some("product_query")

planner_skip ==
    /\ pc = "planner"
    /\ ~is_product_query(state)
    /\ pc' = "retriever"
    /\ UNCHANGED <<state, calls, classified, top3_pre, top3, wsvars, module_state, tool>>

planner_llm_path ==
    /\ pc = "planner"
    /\ is_product_query(state)
    /\ calls' = [calls EXCEPT !.planner_llm = @ + 1]
    /\ \E resp \in PlannerResponses :
         IF resp.kind = "raise"
         THEN pc' = "crashed" /\ UNCHANGED state
         ELSE /\ state' = [state EXCEPT !.plan = json_loads_or_error(resp)]
              /\ pc' = "retriever"
    /\ UNCHANGED <<classified, top3_pre, top3, wsvars, module_state, tool>>

planner_node == planner_skip \/ planner_llm_path

-----------------------------------------------------------------------------
(* rag/search.py: the retrieval engine behind rag.search *)

MaxHits == 6

MISSING == -1

\* metadata as build_index_from_clean_df stores it: a missing price or rating
\* is stored as -1.0
Meta(title, price, rating, brand, subcategory) ==
    [ title |-> title, price |-> Some(price), rating |-> Some(rating),
      brand |-> brand, subcategory |-> subcategory, category |-> "Toys & Games",
      ingredients |-> "", product_url |-> "www.shop.example/" \o title,
      image_url |-> "https://img.example/" \o title ]

Catalog ==
    [ p1 |-> Meta("Lego", 5, 4, "Lego", "Building Sets"),
      p2 |-> Meta("Logo", 0, MISSING, "", "Puzzles"),
      p3 |-> Meta("Uno", MISSING, 5, "Mattel", ""),
      p4 |-> Meta("Legos", 10, 4, "Lego", "Building Sets"),
      p5 |-> Meta("Catan", 15, 5, "Kosmos", "Board Games"),
      p6 |-> Meta("Yoyo", 0, MISSING, "", "") ]

Min(a, b) == IF a <= b THEN a ELSE b

Take(l, n) == SubSeq(l, 1, Min(Len(l), n))

CatalogOrder == << "p1", "p2", "p3", "p4", "p5", "p6" >>

\* the ids of up to MaxHits products, in the order of CatalogOrder or in the
\* opposite order
IdLists ==
    LET n == Len(CatalogOrder)
        pick(S, up) ==
            [k \in 1..Cardinality(S) |->
                CatalogOrder[CHOOSE i \in S :
                    Cardinality({ j \in S : IF up THEN j < i ELSE j > i }) = k - 1]]
    IN  { pick(S, up) : S \in { T \in SUBSET (1..n) : Cardinality(T) <= MaxHits },
                        up \in BOOLEAN }

\* what collection.query returns for some query embedding: ids, metadatas and
\* distances, nearest first; the distances all differ or all tie
QueryResults ==
    { [i \in 1..Len(l) |->
          [id |-> l[i], meta |-> Catalog[l[i]], dist |-> IF tie THEN 1 ELSE i]] :
      l \in IdLists, tie \in BOOLEAN }

\* the three-way comparison of two tuples of numbers
RECURSIVE TupleLess(_, _)
TupleLess(a, b) ==
    IF Len(a) = 0 \/ Len(b) = 0 THEN Len(a) < Len(b)
    ELSE \/ a[1] < b[1]
         \/ (a[1] = b[1] /\ TupleLess(Tail(a), Tail(b)))

\* a sort that puts equal keys in the reverse of their original order
sorted_order_unstable(keys) ==
    LET n == Len(keys)
        rank(i) ==
            Cardinality({ j \in 1..n :
                            \/ TupleLess(keys[j], keys[i])
                            \/ (~TupleLess(keys[i], keys[j]) /\ j > i) }) + 1
    IN  [r \in 1..n |-> CHOOSE i \in 1..n : rank(i) = r]

\* the indices of keys in the order sorted(..., key=...) puts them: ascending
\* by key, equal keys in their original order (the sort is stable)
sorted_order(keys) ==
    LET n == Len(keys)
        rank(i) ==
            Cardinality({ j \in 1..n :
                            \/ TupleLess(keys[j], keys[i])
                            \/ (~TupleLess(keys[i], keys[j]) /\ j < i) }) + 1
    IN  [r \in 1..n |-> CHOOSE i \in 1..n : rank(i) = r]

\* sorted(l, key=...) for the list of the elements' keys
sorted(l, keys) == LET o == sorted_order(keys) IN [r \in 1..Len(l) |-> l[o[r]]]

INFINITE_PRICE == 1000000000

\* a price filter that drops missing prices but forgets the ceiling
passes_price_no_ceiling(price, max_price) ==
    \/ max_price = None
    \/ /\ price # None
       /\ price[1] >= 0

\* a price filter that also drops a price equal to the ceiling
passes_price_strict(price, max_price) ==
    \/ max_price = None
    \/ /\ price # None
       /\ price[1] >= 0
       /\ price[1] < max_price[1]

\* the price filter of search_products
passes_price(price, max_price) ==
    \/ max_price = None
    \/ /\ price # None
       /\ price[1] >= 0
       /\ price[1] <= max_price[1]

\* rating in [None, "", "-1", -1, -1.0] -> 0.0
clean_rating(rating) ==
    IF rating = None \/ rating[1] = MISSING THEN Some(0) ELSE rating

hybrid_key(x) ==
    << x._distance,
       -(IF x.rating # None THEN x.rating[1] ELSE 0),
       IF x.price # None THEN x.price[1] ELSE INFINITE_PRICE >>

rating_price_key(x) ==
    << -(IF TruthyNum(x.rating) THEN x.rating[1] ELSE 0),
       IF x.price # None THEN x.price[1] ELSE INFINITE_PRICE >>

candidate_of(hit) ==
    [ id |-> hit.id, title |-> hit.meta.title, price |-> hit.meta.price,
      rating |-> clean_rating(hit.meta.rating), brand |-> hit.meta.brand,
      subcategory |-> hit.meta.subcategory, category |-> hit.meta.category,
      features |-> "", ingredients |-> hit.meta.ingredients,
      product_url |-> hit.meta.product_url, image_url |-> hit.meta.image_url,
      doc_id |-> "products::" \o hit.id, _distance |-> hit.dist ]

\* c.pop("_distance", None)
pop_distance(c) == [k \in DOMAIN c \ {"_distance"} |-> c[k]]

\* search_products(query, max_results, max_price, brand, subcategory_filter,
\* sort_by), on what the collection returns for the query
search_products(hits, max_results, max_price, brand, subcategory_filter, sort_by) ==
    LET fetched == Take(hits, max_results * 10)
        keep(h) ==
            /\ passes_price(h.meta.price, max_price)
            /\ (TruthyStr(brand) => contains(lower(h.meta.brand), lower(brand[1])))
            /\ (TruthyStr(subcategory_filter) =>
                    contains(lower(h.meta.subcategory), lower(subcategory_filter[1])))
        kept == SelectSeq(fetched, keep)
        candidates == [i \in 1..Len(kept) |-> candidate_of(kept[i])]
        keys ==
            [i \in 1..Len(candidates) |->
                CASE sort_by = "similarity"   -> <<candidates[i]._distance>>
                  [] sort_by = "rating_price" -> rating_price_key(candidates[i])
                  [] OTHER                    -> hybrid_key(candidates[i])]
        ranked == sorted(candidates, keys)
        top == Take(ranked, max_results)
    IN  [i \in 1..Len(top) |-> pop_distance(top[i])]

-----------------------------------------------------------------------------
(* mcp_server/server.py: the rag.search tool *)

FUZZY_THRESHOLD_PCT == 45

\* fuzzy_match(a, b, threshold=0.45)
fuzzy_match(a, b) ==
    IF a = "" \/ b = "" THEN FALSE
    ELSE RatioAtLeast(lower(a), lower(b), FUZZY_THRESHOLD_PCT, 100)

OVERFETCH == 5

\* a brand test that also drops candidates without a brand
brand_ok_requires_brand(p, brand) ==
    TruthyStr(brand) => fuzzy_match(p.brand, brand[1])

\* "if brand: if prod_brand and not fuzzy_match(prod_brand, brand): ok = False"
brand_ok(p, brand) ==
    TruthyStr(brand) => ~(p.brand # "" /\ ~fuzzy_match(p.brand, brand[1]))

\* p.get("subcategory", "") or p.get("category", "")
prod_cat_of(p) == IF p.subcategory # "" THEN p.subcategory ELSE p.category

\* a category test that tries the category whenever the subcategory does not
\* match
category_ok_either(p, category) ==
    TruthyStr(category) =>
        \/ (p.subcategory = "" /\ p.category = "")
        \/ fuzzy_match(p.subcategory, category[1])
        \/ fuzzy_match(p.category, category[1])

\* "if category: if prod_cat and not fuzzy_match(prod_cat, category): ok = False"
category_ok(p, category) ==
    TruthyStr(category) =>
        ~(prod_cat_of(p) # "" /\ ~fuzzy_match(prod_cat_of(p), category[1]))

\* mcp_rag_search(req) for req.constraints and req.max_results
mcp_rag_search(hits, constraints, max_results) ==
    LET max_price == get(constraints, "budget")
        brand == get(constraints, "brand")
        category == get(constraints, "category")
        raw_results ==
            search_products(hits, max_results * OVERFETCH, max_price, None, None, "hybrid")
        ok(p) == brand_ok(p, brand) /\ category_ok(p, category)
    IN  Take(SelectSeq(raw_results, ok), max_results)

\* the constraints a rag.search request may carry
RagConstraints ==
    { b @@ br @@ c :
        b \in Key("budget", { Some(x) : x \in Budgets }),
        br \in Key("brand", { Some("Mattel") }),
        c \in Key("category", { Some("Puzzles"), Some("Toys") }) }

\* max_results of call_rag_tool as the retriever calls it
RAG_MAX_RESULTS == 5

\* req.max_results: one, or what the retriever asks for
RagKs == { 1, RAG_MAX_RESULTS }

SortStrategies == { "similarity", "rating_price", "hybrid" }

\* POST /mcp/tools/rag.search arrives; hits is what the collection returns for
\* the query
rag_search_request ==
    /\ tool.pc = "idle"
    /\ \E hits \in QueryResults, constraints \in RagConstraints, k \in RagKs :
         tool' = [ pc |-> "serving", fn |-> "mcp_rag_search", hits |-> hits,
                   constraints |-> constraints, max_results |-> k ]
    /\ UNCHANGED <<pvars, wsvars, module_state>>

\* mcp_rag_search returns {"results": filtered}
rag_search_response ==
    /\ tool.pc = "serving"
    /\ tool.fn = "mcp_rag_search"
    /\ tool' = [ pc |-> "returned", fn |-> tool.fn, hits |-> tool.hits,
                 constraints |-> tool.constraints, max_results |-> tool.max_results,
                 result |-> mcp_rag_search(tool.hits, tool.constraints,
                                           tool.max_results) ]
    /\ UNCHANGED <<pvars, wsvars, module_state>>

\* search_products is called with a price ceiling and a ranking strategy
search_products_call ==
    /\ tool.pc = "idle"
    /\ \E hits \in QueryResults, k \in RagKs, sort_by \in SortStrategies,
          max_price \in { None } \cup { Some(x) : x \in Budgets } :
         tool' = [ pc |-> "serving", fn |-> "search_products", hits |-> hits,
                   max_results |-> k, max_price |-> max_price, sort_by |-> sort_by ]
    /\ UNCHANGED <<pvars, wsvars, module_state>>

\* search_products returns final
search_products_return ==
    /\ tool.pc = "serving"
    /\ tool.fn = "search_products"
    /\ tool' = [ pc |-> "returned", fn |-> tool.fn, hits |-> tool.hits,
                 max_results |-> tool.max_results, max_price |-> tool.max_price,
                 sort_by |-> tool.sort_by,
                 result |-> search_products(tool.hits, tool.max_results,
                                            tool.max_price, None, None, tool.sort_by) ]
    /\ UNCHANGED <<pvars, wsvars, module_state>>

\* the caller has its answer; the next request can be served
tool_done ==
    /\ tool.pc = "returned"
    /\ tool' = idle_tool
    /\ UNCHANGED <<pvars, wsvars, module_state>>

\* the retrieval engine and the rag.search tool, called with any request
RagInit ==
    /\ pc = "idle"
    /\ state = initial_state
    /\ calls = NoCalls
    /\ classified = EmptyDict
    /\ top3_pre = <<>>
    /\ top3 = <<>>
    /\ web_search_loaded
    /\ module_state = initial_state
    /\ tool = idle_tool

RagNext ==
    \/ rag_search_request
    \/ rag_search_response
    \/ search_products_call
    \/ search_products_return
    \/ tool_done

RagSpec == RagInit /\ [][RagNext]_vars

-----------------------------------------------------------------------------
(* mcp_server/web_search.py: the web.search tool *)

MaxWeb == 2

SerperItems ==
    { [title |-> "Lego", link |-> "https://a.example", snippet |-> "bricks"] }

\* data.get("organic", []) of the search API's answer
OrganicLists == UNION { [1..n -> SerperItems] : n \in 0..MaxWeb }

\* a normalisation that reports a price for every result
normalize_serper_with_price(organic) ==
    [i \in 1..Len(organic) |->
        [ title |-> organic[i].title, url |-> organic[i].link,
          snippet |-> organic[i].snippet, price |-> Some(7), availability |-> None ]]

\* the normalised results of web_search
normalize_serper(organic) ==
    [i \in 1..Len(organic) |->
        [ title |-> organic[i].title, url |-> organic[i].link,
          snippet |-> organic[i].snippet, price |-> None, availability |-> None ]]

\* what the search API answers with: one organic result
WebAnswers == { o \in OrganicLists : Len(o) = 1 }

\* a freshness test that lets an entry expire one second early
is_fresh_strict(now, ts) == now - ts < CACHE_TTL_SECONDS

\* now - ts <= CACHE_TTL_SECONDS
is_fresh(now, ts) == now - ts <= CACHE_TTL_SECONDS

\* _cache[cache_key] = entry
cache_put(c, key, entry) ==
    [k \in DOMAIN c \cup {key} |-> IF k = key THEN entry ELSE c[k]]

\* web_search is entered: cache_key, now = time.time() and the cache check;
\* a fresh entry is returned, anything else goes on to _rate_limit()
web_search_begin(t) ==
    /\ callers[t].pc = "idle"
    /\ callers[t].n < MaxRequests
    /\ \E q \in WebQueries :
       \E key \in { <<q, WEB_MAX_RESULTS>> } :
         IF key \in DOMAIN cache /\ is_fresh(clock, cache[key].ts)
         THEN callers' = [callers EXCEPT ![t] =
                            [ pc |-> "idle", key |-> key, now |-> clock, wake |-> 0,
                              result |-> Some(cache[key].payload),
                              raised |-> FALSE, n |-> @.n + 1 ]]
         ELSE callers' = [callers EXCEPT ![t] =
                            [ pc |-> "rate_limit", key |-> key, now |-> clock,
                              wake |-> 0, result |-> None,
                              raised |-> FALSE, n |-> @.n + 1 ]]
    /\ UNCHANGED <<clock, cache, last_call_ts, ticks, outbound, pvars, module_state, tool>>

\* _rate_limit: now = time.time() and the test against _last_call_ts
rate_limit_read(t) ==
    /\ callers[t].pc = "rate_limit"
    /\ IF clock - last_call_ts < MIN_INTERVAL_SECONDS
       THEN callers' = [callers EXCEPT
                          ![t].pc = "sleeping",
                          ![t].wake = clock + (MIN_INTERVAL_SECONDS - (clock - last_call_ts))]
       ELSE callers' = [callers EXCEPT ![t].pc = "rate_limit_set"]
    /\ UNCHANGED <<clock, cache, last_call_ts, ticks, outbound, pvars, module_state, tool>>

\* _rate_limit: time.sleep(...) returns once the time has passed
rate_limit_sleep(t) ==
    /\ callers[t].pc = "sleeping"
    /\ clock >= callers[t].wake
    /\ callers' = [callers EXCEPT ![t].pc = "rate_limit_set"]
    /\ UNCHANGED <<clock, cache, last_call_ts, ticks, outbound, pvars, module_state, tool>>

\* _rate_limit: _last_call_ts = time.time()
rate_limit_set(t) ==
    /\ callers[t].pc = "rate_limit_set"
    /\ last_call_ts' = clock
    /\ callers' = [callers EXCEPT ![t].pc = "post"]
    /\ UNCHANGED <<clock, cache, ticks, outbound, pvars, module_state, tool>>

\* requests.post(WEB_SEARCH_API_URL, ...) is issued
web_search_post(t) ==
    /\ callers[t].pc = "post"
    /\ outbound' = Some(clock)
    /\ callers' = [callers EXCEPT ![t].pc = "await"]
    /\ UNCHANGED <<clock, cache, last_call_ts, ticks, pvars, module_state, tool>>

\* a web_search that stores an empty payload when the request fails
web_search_response_stores_failure(t) ==
    /\ callers[t].pc = "await"
    /\ \/ /\ callers' = [callers EXCEPT ![t].pc = "idle", ![t].raised = TRUE]
          /\ cache' = cache_put(cache, callers[t].key,
                                [ ts |-> callers[t].now,
                                  payload |-> [ results |-> <<>>, timestamp |-> clock ],
                                  stored_at |-> clock ])
       \/ \E organic \in WebAnswers :
            \E payload \in { [ results |-> normalize_serper(organic),
                                timestamp |-> clock ] } :
               /\ cache' = cache_put(cache, callers[t].key,
                                     [ ts |-> callers[t].now, payload |-> payload,
                                       stored_at |-> clock ])
               /\ callers' = [callers EXCEPT ![t].pc = "idle",
                                              ![t].result = Some(payload)]
    /\ UNCHANGED <<clock, last_call_ts, ticks, outbound, pvars, module_state, tool>>

\* the answer of the search API: raise_for_status or resp.json() raises, or
\* the results are normalised, stored under the call's own "now" and returned.
\* (stored_at is not in the code: it records when the entry was written.)
web_search_response(t) ==
    /\ callers[t].pc = "await"
    /\ \/ /\ callers' = [callers EXCEPT ![t].pc = "idle", ![t].raised = TRUE]
          /\ UNCHANGED cache
       \/ \E organic \in WebAnswers :
            \E payload \in { [ results |-> normalize_serper(organic),
                                timestamp |-> clock ] } :
               /\ cache' = cache_put(cache, callers[t].key,
                                     [ ts |-> callers[t].now, payload |-> payload,
                                       stored_at |-> clock ])
               /\ callers' = [callers EXCEPT ![t].pc = "idle",
                                              ![t].result = Some(payload)]
    /\ UNCHANGED <<clock, last_call_ts, ticks, outbound, pvars, module_state, tool>>

\* time passes
time_passes ==
    /\ ticks < MaxTicks
    /\ \E d \in TickSizes : clock' = clock + d
    /\ ticks' = ticks + 1
    /\ UNCHANGED <<cache, last_call_ts, callers, outbound, pvars, module_state, tool>>

web_search(t) ==
    \/ web_search_begin(t)
    \/ rate_limit_read(t)
    \/ rate_limit_sleep(t)
    \/ rate_limit_set(t)
    \/ web_search_post(t)
    \/ web_search_response(t)

\* the tool server: threads calling web_search while time passes
WebInit ==
    /\ pc = "idle"
    /\ state = initial_state
    /\ calls = NoCalls
    /\ classified = EmptyDict
    /\ top3_pre = <<>>
    /\ top3 = <<>>
    /\ web_search_loaded
    /\ module_state = initial_state
    /\ tool = idle_tool

WebNext ==
    \/ \E t \in Threads : web_search_begin(t)
    \/ \E t \in Threads : rate_limit_read(t)
    \/ \E t \in Threads : rate_limit_sleep(t)
    \/ \E t \in Threads : rate_limit_set(t)
    \/ \E t \in Threads : web_search_post(t)
    \/ \E t \in Threads : web_search_response(t)
    \/ time_passes

WebSpec == WebInit /\ [][WebNext]_vars

-----------------------------------------------------------------------------
(* the retriever *)

tools_of(plan) == IF "tools" \in DOMAIN plan THEN plan.tools ELSE <<>>

\* a retriever that forwards every constraint of the classifier
rag_constraints_of_forwards_all(raw_constraints) == raw_constraints

\* only the budget is forwarded to rag.search
rag_constraints_of(raw_constraints) ==
    IF "budget" \in DOMAIN raw_constraints
    THEN [budget |-> raw_constraints.budget]
    ELSE EmptyDict

retriever_skip ==
    /\ pc = "retriever"
    /\ ~is_product_query(state)
    /\ pc' = "answerer"
    /\ UNCHANGED <<state, calls, classified, top3_pre, top3, wsvars, module_state, tool>>

\* plan.get raises AttributeError when the plan is no object
retriever_bad_plan ==
    /\ pc = "retriever"
    /\ is_product_query(state)
    /\ ~IsDict(state.plan)
    /\ pc' = "crashed"
    /\ UNCHANGED <<state, calls, classified, top3_pre, top3, wsvars, module_state, tool>>

\* call_rag_tool: the tool's results, or an exception (HTTP error, timeout)
retriever_rag ==
    /\ pc = "retriever"
    /\ is_product_query(state)
    /\ IsDict(state.plan)
    /\ IF InList("rag.search", tools_of(state.plan))
       THEN /\ calls' = [calls EXCEPT
                            !.rag = @ + 1,
                            !.rag_constraints =
                                Some(rag_constraints_of(state.constraints))]
            /\ \/ pc' = "crashed" /\ UNCHANGED state
               \/ \E hits \in QueryResults :
                    /\ state' = [state EXCEPT !.rag_results =
                                   mcp_rag_search(hits,
                                                  rag_constraints_of(state.constraints),
                                                  RAG_MAX_RESULTS)]
                    /\ pc' = "retriever_web"
       ELSE /\ pc' = "retriever_web"
            /\ UNCHANGED <<state, calls>>
    /\ UNCHANGED <<classified, top3_pre, top3, wsvars, module_state, tool>>

\* call_web_tool: the tool's results, or an exception
retriever_web ==
    /\ pc = "retriever_web"
    /\ IF InList("web.search", tools_of(state.plan))
       THEN /\ calls' = [calls EXCEPT !.web = @ + 1]
            /\ \/ pc' = "crashed" /\ UNCHANGED state
               \/ \E organic \in OrganicLists :
                    /\ state' = [state EXCEPT !.web_results = normalize_serper(organic)]
                    /\ pc' = "answerer"
       ELSE /\ pc' = "answerer"
            /\ UNCHANGED <<state, calls>>
    /\ UNCHANGED <<classified, top3_pre, top3, wsvars, module_state, tool>>

retriever_node == retriever_skip \/ retriever_bad_plan \/ retriever_rag \/ retriever_web

-----------------------------------------------------------------------------
(* the answerer *)

TOP_K == 3

MERGE_THRESHOLD_PCT == 55

\* score(p) of the top-3 selection
score(p, constraints) ==
    LET r == IF TruthyNum(get(p, "rating")) THEN p.rating[1] ELSE 0
        price == get(p, "price")
        budget == get(constraints, "budget")
    IN  IF TruthyNum(budget) /\ TruthyNum(price) /\ price[1] > budget[1]
        THEN r - 2 ELSE r

\* a selection that sorts by score but forgets the [:3]
top3_indices_no_cut(rag, constraints) ==
    sorted_order([i \in 1..Len(rag) |-> << -score(rag[i], constraints) >>])

\* the indices into rag of sorted(rag, key=score, reverse=True)[:3]; the
\* reverse sort keeps equal scores in their original order
top3_indices(rag, constraints) ==
    Take(sorted_order([i \in 1..Len(rag) |-> << -score(rag[i], constraints) >>]), TOP_K)

\* a title comparison with the threshold at 0.25
fuzzy_above_low_threshold(a, b) == RatioAbove(lower(a), lower(b), 25, 100)

\* fuzzy(a, b) > 0.55
fuzzy_above(a, b) == RatioAbove(lower(a), lower(b), MERGE_THRESHOLD_PCT, 100)

\* the test of the merge loop's body for candidate title and web result w
web_overwrites(title, w) == TruthyNum(w.price) /\ fuzzy_above(title, w.title)

RECURSIVE merged_price(_, _, _)
\* p["price"] after "for w in web: if ...: p["price"] = w["price"]"
merged_price(price, title, web) ==
    IF Len(web) = 0 THEN price
    ELSE merged_price(IF web_overwrites(title, web[1]) THEN web[1].price ELSE price,
                      title, Tail(web))

\* a merge that also takes the title of the last web result
merge_candidate_copies_title(p, web) ==
    [p EXCEPT !.price = merged_price(p.price, p.title, web),
              !.title = IF Len(web) > 0 THEN web[Len(web)].title ELSE @]

\* the candidate after the merge loop
merge_candidate(p, web) == [p EXCEPT !.price = merged_price(p.price, p.title, web)]

\* rag/search.py normalize_url
normalize_url(url) ==
    IF url = "" THEN ""
    ELSE LET u == strip(url)
         IN  IF startswith(u, "http://") \/ startswith(u, "https://") THEN u
             ELSE "https://" \o u

\* one entry of the normalised product list
normalize_product(p) ==
    [ id |-> p.id, title |-> p.title, brand |-> p.brand, price |-> p.price,
      rating |-> p.rating, ingredients |-> p.ingredients, features |-> p.features,
      product_url |-> normalize_url(p.product_url),
      image_url |-> normalize_url(p.image_url), doc_id |-> p.doc_id ]

\* response.content of answer_llm.invoke
AnswerTexts == { " Our top pick is a great choice. " }

answerer_short_circuit ==
    /\ pc = "answerer"
    /\ intent_type_of(state) \in { Some("greeting"), Some("out_of_domain") }
    /\ state' = [state EXCEPT !.products = <<>>]
    /\ pc' = "done"
    /\ UNCHANGED <<calls, classified, top3_pre, top3, wsvars, module_state, tool>>

\* an answerer without the empty-results fallback: it asks the answer LLM
\* about an empty product list
answerer_no_results_asks_llm ==
    /\ pc = "answerer"
    /\ intent_type_of(state) \notin { Some("greeting"), Some("out_of_domain") }
    /\ Len(state.rag_results) = 0
    /\ calls' = [calls EXCEPT !.answer_llm = @ + 1]
    /\ \E content \in AnswerTexts :
         state' = [state EXCEPT !.products = <<>>, !.final_answer = strip(content)]
    /\ pc' = "done"
    /\ UNCHANGED <<classified, top3_pre, top3, wsvars, module_state, tool>>

answerer_no_results ==
    /\ pc = "answerer"
    /\ intent_type_of(state) \notin { Some("greeting"), Some("out_of_domain") }
    /\ Len(state.rag_results) = 0
    /\ state' = [state EXCEPT !.products = <<>>, !.final_answer = NO_RESULTS_ANSWER]
    /\ pc' = "done"
    /\ UNCHANGED <<calls, classified, top3_pre, top3, wsvars, module_state, tool>>

\* an answerer that records where its products came from
answerer_answer_with_citations ==
    /\ pc = "answerer"
    /\ intent_type_of(state) \notin { Some("greeting"), Some("out_of_domain") }
    /\ Len(state.rag_results) > 0
    /\ \E idx \in { top3_indices(state.rag_results, state.constraints) } :
       \E selected \in { [k \in 1..Len(idx) |-> state.rag_results[idx[k]]] } :
       \E after \in { [k \in 1..Len(idx) |-> merge_candidate(selected[k], state.web_results)] } :
       \E rag_after \in { [i \in 1..Len(state.rag_results) |->
                   IF \E k \in 1..Len(idx) : idx[k] = i
                   THEN after[CHOOSE k \in 1..Len(idx) : idx[k] = i] ELSE state.rag_results[i]] } :
       \E normalized \in { [k \in 1..Len(after) |-> normalize_product(after[k])] } :
           /\ top3_pre' = selected
           /\ top3' = after
           /\ calls' = [calls EXCEPT !.merge = @ + 1, !.answer_llm = @ + 1]
           /\ UNCHANGED <<classified, wsvars, module_state, tool>>
           /\ \/ /\ pc' = "crashed"
                 /\ state' = [state EXCEPT !.rag_results = rag_after,
                                           !.products = normalized,
                                           !.citations = [sources |-> Some("catalog")]]
              \/ \E content \in AnswerTexts :
                   /\ pc' = "done"
                   /\ state' = [state EXCEPT !.rag_results = rag_after,
                                             !.products = normalized,
                                             !.citations = [sources |-> Some("catalog")],
                                             !.final_answer = strip(content)]

\* top-3 selection, merge, normalisation and the answer; the merge assigns to
\* the dicts that state["rag_results"] holds. (Each local is bound by a
\* quantifier over a singleton so that it is evaluated once.)
answerer_answer ==
    /\ pc = "answerer"
    /\ intent_type_of(state) \notin { Some("greeting"), Some("out_of_domain") }
    /\ Len(state.rag_results) > 0
    /\ \E idx \in { top3_indices(state.rag_results, state.constraints) } :
       \E selected \in { [k \in 1..Len(idx) |-> state.rag_results[idx[k]]] } :
       \E after \in { [k \in 1..Len(idx) |-> merge_candidate(selected[k], state.web_results)] } :
       \E rag_after \in { [i \in 1..Len(state.rag_results) |->
                   IF \E k \in 1..Len(idx) : idx[k] = i
                   THEN after[CHOOSE k \in 1..Len(idx) : idx[k] = i] ELSE state.rag_results[i]] } :
       \E normalized \in { [k \in 1..Len(after) |-> normalize_product(after[k])] } :
           /\ top3_pre' = selected
           /\ top3' = after
           /\ calls' = [calls EXCEPT !.merge = @ + 1, !.answer_llm = @ + 1]
           /\ UNCHANGED <<classified, wsvars, module_state, tool>>
           /\ \/ /\ pc' = "crashed"
                 /\ state' = [state EXCEPT !.rag_results = rag_after,
                                           !.products = normalized]
              \/ \E content \in AnswerTexts :
                   /\ pc' = "done"
                   /\ state' = [state EXCEPT !.rag_results = rag_after,
                                             !.products = normalized,
                                             !.final_answer = strip(content)]

answerer_node == answerer_short_circuit \/ answerer_no_results \/ answerer_answer

-----------------------------------------------------------------------------
(* the pipeline: router -> planner -> retriever -> answerer -> END *)

Next ==
    \/ run_pipeline
    \/ router_fast_path
    \/ router_llm_path
    \/ planner_skip
    \/ planner_llm_path
    \/ retriever_skip
    \/ retriever_bad_plan
    \/ retriever_rag
    \/ retriever_web
    \/ answerer_short_circuit
    \/ answerer_no_results
    \/ answerer_answer

Spec == Init /\ [][Next]_vars

-----------------------------------------------------------------------------
(* the answerer on its own: answerer_node applied to any context that the
   tools' interfaces allow, web results carrying prices included *)

PricedWebItems ==
    { [title |-> "Lego", url |-> "https://a.example", snippet |-> "",
       price |-> Some(7), availability |-> None],
      [title |-> "LEGOS", url |-> "https://b.example", snippet |-> "",
       price |-> Some(30), availability |-> None],
      [title |-> "Lego", url |-> "https://c.example", snippet |-> "",
       price |-> None, availability |-> None],
      [title |-> "Legos", url |-> "https://d.example", snippet |-> "",
       price |-> Some(0), availability |-> None] }

PricedWebLists == UNION { [1..n -> PricedWebItems] : n \in 0..MaxWeb }

AnswererPlans ==
    { [tools |-> <<"rag.search", "web.search">>] }
    \cup { [tools |-> <<"rag.search", "web.search">>, conflict_policy |-> Some(cp)] :
             cp \in ConflictPolicies }

AnswererIntents ==
    { [intent_type |-> Some("greeting")],
      [intent_type |-> Some("product_query"), product_type |-> Some("lego"),
       needs_live_price |-> TRUE] }

AnswererInit ==
    /\ pc = "answerer"
    /\ calls = NoCalls
    /\ classified = EmptyDict
    /\ top3_pre = <<>>
    /\ top3 = <<>>
    /\ web_search_loaded
    /\ module_state = initial_state
    /\ tool = idle_tool
    /\ \E intent \in AnswererIntents, plan \in AnswererPlans,
          constraints \in { EmptyDict, [budget |-> Some(10)] },
          hits \in QueryResults, web \in PricedWebLists :
         state = [initial_state EXCEPT
                    !.query = "lego",
                    !.intent = intent,
                    !.constraints = constraints,
                    !.plan = plan,
                    !.rag_results =
                        mcp_rag_search(hits, rag_constraints_of(constraints),
                                       RAG_MAX_RESULTS),
                    !.web_results = web]

AnswererNext == answerer_short_circuit \/ answerer_no_results \/ answerer_answer

AnswererSpec == AnswererInit /\ [][AnswererNext]_vars

-----------------------------------------------------------------------------
(* Properties *)

\* C1: a request routed as greeting or out_of_domain makes no planner call,
\* no rag.search call, no web.search call, no merge and no answer call, and
\* its product list is empty.
C1_ShortCircuit ==
    intent_type_of(state) \in { Some("greeting"), Some("out_of_domain") } =>
        /\ calls.planner_llm = 0
        /\ calls.rag = 0
        /\ calls.web = 0
        /\ calls.merge = 0
        /\ calls.answer_llm = 0
        /\ top3 = <<>>
        /\ state.products = <<>>

C1_Witness ==
    /\ pc = "done"
    /\ intent_type_of(state) = Some("out_of_domain")
    /\ calls.router_llm = 1

\* C2: when the constraints carry a budget B, every product of the response
\* has a price and that price is at most B.
C2_BudgetRespected ==
    LET budget == get(state.constraints, "budget")
    IN  budget # None =>
          \A i \in 1..Len(state.products) :
              /\ state.products[i].price # None
              /\ state.products[i].price[1] <= budget[1]

C2_Witness ==
    /\ pc = "done"
    /\ get(state.constraints, "budget") = Some(10)
    /\ Len(state.products) >= 2
    /\ calls.merge = 1
    /\ Len(state.web_results) > 0
    /\ \E i \in 1..Len(state.products) : state.products[i].price = Some(10)

\* C3: the merge changes no field of a candidate other than price.
C3_MergeIsPriceOnly ==
    /\ Len(top3) = Len(top3_pre)
    /\ \A k \in 1..Len(top3) : top3[k] = [top3_pre[k] EXCEPT !.price = top3[k].price]

C3_Witness ==
    /\ calls.merge = 1
    /\ \E k \in 1..Len(top3) : top3[k].price # top3_pre[k].price

\* C4 (as claimed): the merge overwrites a price only when the plan's conflict
\* policy is web_price_overwrites; under any other policy, or none, every
\* candidate keeps its catalog price.
C4_PolicyGatesOverwrite ==
    (pc = "done" /\ get(state.plan, "conflict_policy") # Some("web_price_overwrites"))
        => \A k \in 1..Len(top3) : top3[k].price = top3_pre[k].price

\* the similarity of a and b as the fraction <<numerator, denominator>>
ratio(a, b) ==
    IF Len(a) + Len(b) = 0 THEN <<1, 1>> ELSE <<2 * matches(a, b), Len(a) + Len(b)>>

\* C5 (as claimed): when web results clear the threshold and carry prices
\* (here: prices other than 0, which the merge never takes), the candidate's
\* price after the merge is the price of a best-scoring one, whatever the
\* order of the web results.
C5_BestMatchWins ==
    pc = "done" =>
      \A k \in 1..Len(top3) :
        LET web == state.web_results
            sim(j) == ratio(lower(top3_pre[k].title), lower(web[j].title))
            clearing == { j \in 1..Len(web) :
                            /\ web[j].price # None
                            /\ web[j].price # Some(0)
                            /\ sim(j)[1] * 100 > 55 * sim(j)[2] }
        IN  clearing # {} =>
              \E j \in clearing :
                 /\ \A i \in clearing : sim(j)[1] * sim(i)[2] >= sim(i)[1] * sim(j)[2]
                 /\ top3[k].price = web[j].price

\* C6: a candidate's price changes in the merge only if some web result has
\* title similarity above 0.55 to it and a non-null price.
C6_PriceChangeNeedsMatch ==
    \A k \in 1..Len(top3) :
        top3[k].price # top3_pre[k].price =>
            \E j \in 1..Len(state.web_results) :
                /\ state.web_results[j].price # None
                /\ RatioAbove(lower(top3_pre[k].title),
                              lower(state.web_results[j].title), 55, 100)

C6_Witness ==
    /\ calls.merge = 1
    /\ \E j \in 1..Len(state.web_results) : state.web_results[j].price = Some(7)
    /\ \E k \in 1..Len(top3) :
          /\ top3_pre[k].title = "Uno"
          /\ top3_pre[k].price = Some(MISSING)
          /\ top3[k].price = Some(MISSING)
    /\ \E k \in 1..Len(top3) : top3[k].price # top3_pre[k].price

\* the fixed greeting answer was given with no external call at all
GreetedOnFastPath ==
    /\ calls = NoCalls
    /\ state.intent = [intent_type |-> Some("greeting")]
    /\ state.final_answer = GREETING_ANSWER
    /\ state.products = <<>>

\* C7 (as claimed): a query that equals a word of the greeting lexicon or
\* begins with one, case-insensitively, is answered on the fast path.
C7_AnyGreetingPrefixIsFastPath ==
    (/\ pc \notin { "idle", "router" }
     /\ \E i \in 1..Len(simple_greetings) :
           startswith(lower(strip(state.query)), simple_greetings[i]))
        => GreetedOnFastPath

\* C7 (amended): a query that, stripped and case-insensitively, equals a word
\* of the greeting lexicon or begins with one followed by a comma is answered
\* on the fast path: no external call, intent greeting, the fixed greeting
\* text and an empty product list.
C7_GreetingFastPath ==
    (/\ pc \notin { "idle", "router" }
     /\ \E i \in 1..Len(simple_greetings) :
           \/ lower(strip(state.query)) = simple_greetings[i]
           \/ startswith(lower(strip(state.query)), simple_greetings[i] \o ","))
        => GreetedOnFastPath

C7_Witness ==
    /\ pc = "done"
    /\ state.query = "Good morning, friend"
    /\ GreetedOnFastPath

\* C8: a classified product query whose product_type is non-empty and holds
\* no allow-list keyword becomes out_of_domain with the fixed rejection and no
\* products; one whose product_type holds a keyword, or is empty, never does.
C8_DomainGate ==
    get(classified, "intent_type") = Some("product_query") =>
        LET c == get(classified, "product_type")
            pt == IF c # None THEN lower(c[1]) ELSE ""
            has_keyword ==
                \E i \in 1..Len(ALLOWED_CATEGORIES) : contains(pt, ALLOWED_CATEGORIES[i])
        IN  IF pt # "" /\ ~has_keyword
            THEN /\ intent_type_of(state) = Some("out_of_domain")
                 /\ state.final_answer = OUT_OF_DOMAIN_ANSWER
                 /\ state.products = <<>>
            ELSE intent_type_of(state) # Some("out_of_domain")

C8_Witness ==
    /\ pc = "done"
    /\ get(classified, "intent_type") = Some("product_query")
    /\ get(classified, "product_type") = Some("rc boat motor")
    /\ intent_type_of(state) = Some("out_of_domain")
    /\ state.final_answer = OUT_OF_DOMAIN_ANSWER

\* C9 (as claimed): when the planner's answer is unparsable, the plan falls
\* back to {rag.search} with policy prefer_catalog and rag.search is called.
C9_UnparsablePlanFallsBack ==
    (/\ pc \in { "retriever_web", "answerer", "done" }
     /\ is_product_query(state)
     /\ "error" \in DOMAIN state.plan)
        => /\ InList("rag.search", tools_of(state.plan))
           /\ get(state.plan, "conflict_policy") = Some("prefer_catalog")
           /\ calls.rag = 1

\* C10 (as claimed): for a product query rag.search is called exactly once,
\* whatever the planner returns.
C10_CatalogSearchAlways ==
    (pc = "done" /\ is_product_query(state)) => calls.rag = 1

\* C11 (as claimed): for a product query the live web search is performed if
\* and only if the intent's needs_live_price is true.
C11_WebIffNeedsLivePrice ==
    (pc = "done" /\ is_product_query(state)) =>
        ((calls.web = 1) <=> state.intent.needs_live_price)

\* C12 (as claimed): a failing web search after a successful catalog search is
\* not propagated: the pipeline never stops on the exception of call_web_tool.
C12_WebFailureDegrades ==
    ~(pc = "crashed" /\ calls.rag = 1 /\ calls.web = 1 /\ calls.answer_llm = 0)

C14_RetrievalEmptyRecovered ==
    [][ (pc = "answerer" /\ is_product_query(state) /\ Len(state.rag_results) = 0) =>
            /\ pc' = "done"
            /\ state'.products = <<>>
            /\ state'.final_answer = NO_RESULTS_ANSWER
            /\ calls'.answer_llm = 0 ]_vars

C14_Witness ==
    /\ pc = "done"
    /\ is_product_query(state)
    /\ calls.rag = 1
    /\ Len(state.rag_results) = 0
    /\ state.final_answer = NO_RESULTS_ANSWER

\* C15 (as claimed): every request reaches the terminal state with a response,
\* also when an external call fails: no request ends on an unhandled exception.
C15_EveryRequestResponds == pc # "crashed"

\* C16: the product list has at most TOP_K entries (taken from at most
\* RAG_MAX_RESULTS catalog results) and no two entries with the same id.
C16_AtMostKDistinct ==
    /\ Len(state.rag_results) <= RAG_MAX_RESULTS
    /\ Len(state.products) <= TOP_K
    /\ \A i, j \in 1..Len(state.products) :
          state.products[i].id = state.products[j].id => i = j

C16_Witness ==
    /\ pc = "done"
    /\ Len(state.rag_results) = RAG_MAX_RESULTS
    /\ Len(state.products) = TOP_K

\* C20 (as claimed): no returned product carries the -1 placeholder: a price
\* is absent or >= 0, and a rating missing in the index is reported as absent.
C20_NoSentinelInResponse ==
    pc = "done" =>
        \A i \in 1..Len(state.products) :
            LET p == state.products[i]
            IN  /\ (p.price = None \/ p.price[1] >= 0)
                /\ (Catalog[p.id].rating = Some(MISSING) => p.rating = None)

\* C17 (as claimed): two web_search calls for the same key that both missed
\* the cache never both have an outbound call in flight.
C17_SingleFlight ==
    \A t, u \in Threads :
        (t # u /\ callers[t].pc = "await" /\ callers[u].pc = "await") =>
            callers[t].key # callers[u].key

\* C18 (as claimed): when requests.post is issued, the previous outbound call
\* was issued at least MIN_INTERVAL_SECONDS earlier.
C18_OutboundSpacing ==
    [][ \A t \in Threads :
          (callers[t].pc = "post" /\ callers'[t].pc = "await" /\ outbound # None) =>
              clock - outbound[1] >= MIN_INTERVAL_SECONDS ]_vars

\* C19 (as claimed): a call made at most CACHE_TTL_SECONDS after the entry for
\* its key was stored returns the stored payload; a later call does not.
C19_FreshSinceStored ==
    [][ \A t \in Threads :
          (/\ callers[t].pc = "idle"
           /\ callers'[t].n = callers[t].n + 1
           /\ callers'[t].key \in DOMAIN cache) =>
              LET entry == cache[callers'[t].key]
              IN  IF clock - entry.stored_at <= CACHE_TTL_SECONDS
                  THEN /\ callers'[t].pc = "idle"
                       /\ callers'[t].result = Some(entry.payload)
                  ELSE callers'[t].pc = "rate_limit" ]_vars

\* C19 (amended): a call that starts at most CACHE_TTL_SECONDS after the
\* timestamp kept in the entry (the start of the call that fetched it) returns
\* the stored payload with no outbound call and no rate-limit wait; any other
\* call goes on to the outbound call, and when that call succeeds its payload
\* replaces the entry under the call's own start time.
C19_FreshSinceTimestamp ==
    [][ \A t \in Threads :
          /\ (callers[t].pc = "idle" /\ callers'[t].n = callers[t].n + 1) =>
                LET k == callers'[t].key
                IN  IF k \in DOMAIN cache /\ clock - cache[k].ts <= CACHE_TTL_SECONDS
                    THEN /\ callers'[t].pc = "idle"
                         /\ callers'[t].result = Some(cache[k].payload)
                         /\ UNCHANGED <<cache, last_call_ts, outbound, clock>>
                    ELSE /\ callers'[t].pc = "rate_limit"
                         /\ callers'[t].result = None
          /\ (callers[t].pc = "post" /\ callers'[t].pc # "post") =>
                (callers'[t].pc = "await" /\ outbound' = Some(clock))
          /\ (callers[t].pc = "await" /\ callers'[t].pc = "idle"
                  /\ ~callers'[t].raised) =>
                /\ callers[t].key \in DOMAIN cache'
                /\ cache'[callers[t].key].ts = callers[t].now
                /\ Some(cache'[callers[t].key].payload) = callers'[t].result ]_vars

\* a call answered from the cache exactly CACHE_TTL_SECONDS after the entry's
\* timestamp
C19_Witness ==
    \E t \in Threads :
        /\ callers[t].pc = "idle"
        /\ callers[t].result # None
        /\ callers[t].key \in DOMAIN cache
        /\ callers[t].now - cache[callers[t].key].ts = CACHE_TTL_SECONDS
        /\ callers[t].result = Some(cache[callers[t].key].payload)

C29_RagResultsUntouched ==
    [][ pc = "answerer" => state'.rag_results = state.rag_results ]_vars

\* C30 (as claimed): after the router stage the intent is one of greeting,
\* out_of_domain or product_query, whatever the classifier answered.
C30_IntentIsOneVariant ==
    pc \in { "planner", "retriever", "retriever_web", "answerer", "done" } =>
        intent_type_of(state) \in
            { Some("greeting"), Some("out_of_domain"), Some("product_query") }

\* a call of fn has returned
Returned(fn) == tool.pc = "returned" /\ tool.fn = fn

\* where the index returned the product with this id
hit_pos(id) == CHOOSE k \in 1..Len(tool.hits) : tool.hits[k].id = id

\* the ids of a product list
ids_of(l) == { l[i].id : i \in 1..Len(l) }

\* the key (distance, -rating-or-0, price-or-infinity) of the i-th product of
\* the result
result_hybrid_key(i) ==
    LET p == tool.result[i]
    IN  << tool.hits[hit_pos(p.id)].dist,
           -(IF p.rating # None THEN p.rating[1] ELSE 0),
           IF p.price # None THEN p.price[1] ELSE INFINITE_PRICE >>

within_budget(B) ==
    { k \in 1..Len(tool.hits) :
        LET price == tool.hits[k].meta.price
        IN  price # None /\ price[1] # MISSING /\ price[1] >= 0 /\ price[1] <= B }

\* C24: with a budget B the products search_products returns are among the
\* hits whose price is present, non-negative and <= B, and as many of them are
\* returned as max_results allows.
C24_PriceFilterExact ==
    (Returned("search_products") /\ tool.max_price # None) =>
        /\ ids_of(tool.result) \subseteq
               { tool.hits[k].id : k \in within_budget(tool.max_price[1]) }
        /\ Len(tool.result) =
               Min(tool.max_results, Cardinality(within_budget(tool.max_price[1])))

\* budget 10: the product priced 10 is kept, the ones priced 15 and without a
\* price are not
C24_Witness ==
    /\ Returned("search_products")
    /\ tool.max_price = Some(10)
    /\ { "p3", "p4", "p5" } \subseteq ids_of(tool.hits)
    /\ "p4" \in ids_of(tool.result)
    /\ "p3" \notin ids_of(tool.result)
    /\ "p5" \notin ids_of(tool.result)

\* C25 (as claimed): the rag.search result is the first max_results entries of
\* the ranked list of all fetched candidates that pass every filter.
C25_TopKOfAllPassing ==
    Returned("mcp_rag_search") =>
        LET ok(p) == /\ brand_ok(p, get(tool.constraints, "brand"))
                     /\ category_ok(p, get(tool.constraints, "category"))
            all == search_products(tool.hits, Len(tool.hits) + 1,
                                   get(tool.constraints, "budget"), None, None, "hybrid")
        IN  tool.result = Take(SelectSeq(all, ok), tool.max_results)

\* the price of the i-th product of the result is missing
price_absent(i) ==
    \/ tool.result[i].price = None
    \/ tool.result[i].price[1] = MISSING

\* C26 (as claimed): under rating_price the result is ordered by rating
\* descending (absent as 0) and, among equal ratings, by price ascending with
\* the products without a price last.
C26_RatingPriceOrder ==
    (Returned("search_products") /\ tool.sort_by = "rating_price") =>
        \A i, j \in 1..Len(tool.result) :
            i < j =>
                LET ri == IF tool.result[i].rating # None
                          THEN tool.result[i].rating[1] ELSE 0
                    rj == IF tool.result[j].rating # None
                          THEN tool.result[j].rating[1] ELSE 0
                IN  /\ ri >= rj
                    /\ ri = rj =>
                          /\ price_absent(i) => price_absent(j)
                          /\ (~price_absent(i) /\ ~price_absent(j)) =>
                                tool.result[i].price[1] <= tool.result[j].price[1]

\* C27: with a brand constraint every returned product has an empty brand or
\* a brand whose similarity to the requested one is at least the threshold;
\* and when the brand is the only constraint and nothing is cut off, every
\* hit with an empty brand is returned.
C27_BrandFilter ==
    (Returned("mcp_rag_search") /\ TruthyStr(get(tool.constraints, "brand"))) =>
        /\ \A i \in 1..Len(tool.result) :
              \/ tool.result[i].brand = ""
              \/ RatioAtLeast(lower(tool.result[i].brand),
                              lower(tool.constraints.brand[1]),
                              FUZZY_THRESHOLD_PCT, 100)
        /\ (DOMAIN tool.constraints = { "brand" }
                /\ Len(tool.hits) <= tool.max_results) =>
              \A k \in 1..Len(tool.hits) :
                  tool.hits[k].meta.brand = "" =>
                      tool.hits[k].id \in ids_of(tool.result)

\* brand "Mattel": the Mattel product and the one without a brand are
\* returned, the Lego one is not
C27_Witness ==
    /\ Returned("mcp_rag_search")
    /\ tool.constraints = [brand |-> Some("Mattel")]
    /\ { "p1", "p2", "p3" } \subseteq ids_of(tool.hits)
    /\ { "p2", "p3" } \subseteq ids_of(tool.result)
    /\ "p1" \notin ids_of(tool.result)

\* s is not empty and is similar enough to the requested category
category_matches(s) ==
    /\ s # ""
    /\ RatioAtLeast(lower(s), lower(tool.constraints.category[1]),
                    FUZZY_THRESHOLD_PCT, 100)

\* a rag.search call with only a category constraint has returned, nothing
\* being cut off
CategoryOnlyReturned ==
    /\ Returned("mcp_rag_search")
    /\ DOMAIN tool.constraints = { "category" }
    /\ Len(tool.hits) <= tool.max_results

\* C28 (as claimed): a candidate is kept if its subcategory or, failing that,
\* its category matches the requested category, and excluded only when
\* neither does.
C28_SubcategoryOrCategory ==
    CategoryOnlyReturned =>
        \A k \in 1..Len(tool.hits) :
            LET m == tool.hits[k].meta
            IN  (tool.hits[k].id \in ids_of(tool.result)) <=>
                    \/ (m.subcategory = "" /\ m.category = "")
                    \/ category_matches(m.subcategory)
                    \/ category_matches(m.category)

\* the field of a product the category constraint is tested against
tested_field(m) == IF m.subcategory # "" THEN m.subcategory ELSE m.category

\* C28 (amended): a candidate is tested against its subcategory when that is
\* not empty and against its category otherwise; every returned product has
\* the tested field empty or matching the requested category, and when the
\* category is the only constraint and nothing is cut off a candidate is
\* returned exactly when its tested field is empty or matches.
C28_SubcategoryElseCategory ==
    (Returned("mcp_rag_search") /\ TruthyStr(get(tool.constraints, "category"))) =>
        /\ \A i \in 1..Len(tool.result) :
              \/ tested_field(tool.result[i]) = ""
              \/ category_matches(tested_field(tool.result[i]))
        /\ CategoryOnlyReturned =>
              \A k \in 1..Len(tool.hits) :
                  (tool.hits[k].id \in ids_of(tool.result)) <=>
                      \/ tested_field(tool.hits[k].meta) = ""
                      \/ category_matches(tested_field(tool.hits[k].meta))

\* category "Toys": the product without subcategory is kept through its
\* category, the one whose subcategory is "Building Sets" is not
C28_Witness ==
    /\ CategoryOnlyReturned
    /\ tool.constraints = [category |-> Some("Toys")]
    /\ { "p1", "p3" } \subseteq ids_of(tool.hits)
    /\ "p3" \in ids_of(tool.result)
    /\ "p1" \notin ids_of(tool.result)

\* C31 (as claimed): a product query passes through route, plan, retrieve,
\* merge and answer in this order, each at most once and none skipped; the
\* catalog search comes before the web search and both have returned before
\* the merge. (Stated of the executions that end without an exception; a
\* merge over no candidates is counted as passed.)
C31_FullChainInOrder ==
    /\ \A f \in { "router_llm", "planner_llm", "rag", "web", "merge", "answer_llm" } :
          calls[f] <= 1
    /\ calls.planner_llm = 1 => pc \notin { "router", "planner" }
    /\ calls.web = 1 => pc \in { "answerer", "done", "crashed" }
    /\ calls.merge = 1 => pc \in { "done", "crashed" }
    /\ (is_product_query(state) /\ pc = "done") =>
          /\ calls.planner_llm = 1
          /\ calls.rag = 1
          /\ InList("web.search", tools_of(state.plan)) => calls.web = 1
          /\ Len(state.rag_results) > 0 =>
                (calls.merge = 1 /\ calls.answer_llm = 1)

\* C32: every web.search result has price null, and in the pipeline composed
\* with the tool the merge leaves every selected product's price as the
\* catalog search returned it.
C32_MergeNeverChangesPrice ==
    /\ \A i \in 1..Len(state.web_results) : state.web_results[i].price = None
    /\ Len(top3) = Len(top3_pre)
    /\ \A k \in 1..Len(top3) : top3[k].price = top3_pre[k].price
    /\ pc = "done" =>
          \A k \in 1..Len(state.products) :
              state.products[k].price = top3_pre[k].price

\* the merge has run over a web result whose title matches a selected
\* product's title: only the null price keeps the catalog price
C32_Witness ==
    /\ pc = "done"
    /\ calls.merge = 1
    /\ \E k \in 1..Len(top3_pre), i \in 1..Len(state.web_results) :
          /\ fuzzy_above(top3_pre[k].title, state.web_results[i].title)
          /\ top3_pre[k].price # None
          /\ state.products[k].price = top3_pre[k].price

\* C33: no stage writes the citations field; in every state of every
\* execution it is the empty mapping of initial_state.
C33_CitationsNeverWritten ==
    /\ state.citations = EmptyDict
    /\ module_state.citations = EmptyDict

\* an answered product query that used catalog products and web results
C33_Witness ==
    /\ pc = "done"
    /\ is_product_query(state)
    /\ calls.answer_llm = 1
    /\ Len(state.products) > 0
    /\ Len(state.web_results) > 0
    /\ state.citations = EmptyDict

\* C34: the constraints of every rag.search request of the retriever hold
\* the classifier's budget and nothing else; brand, category and material
\* are not forwarded.
C34_OnlyBudgetForwarded ==
    [][ calls'.rag = calls.rag + 1 =>
            /\ calls'.rag_constraints # None
            /\ DOMAIN calls'.rag_constraints[1] \subseteq { "budget" }
            /\ get(calls'.rag_constraints[1], "budget") =
                   get(state.constraints, "budget") ]_vars

\* the classifier extracted brand "Mattel", category and material; the
\* request carried the budget only and a Lego product came back
C34_Witness ==
    /\ pc = "retriever_web"
    /\ { "brand", "category", "material" } \subseteq DOMAIN state.constraints
    /\ state.constraints.brand = Some("Mattel")
    /\ calls.rag_constraints = Some([budget |-> Some(10)])
    /\ \E i \in 1..Len(state.rag_results) : state.rag_results[i].brand = "Lego"

\* C35: the step in which a web_search call's outbound request fails raises
\* to the caller with no payload and changes neither the cache nor, any
\* more, the rate limiter; the rate limiter's timestamp is at or after the
\* call's start and the request was issued.
C35_FailureLeavesCache ==
    [][ \A t \in Threads :
          (callers[t].pc = "await" /\ callers'[t].pc = "idle" /\ callers'[t].raised) =>
              /\ cache' = cache
              /\ callers'[t].result = None
              /\ last_call_ts' = last_call_ts
              /\ last_call_ts >= callers[t].now
              /\ outbound # None ]_vars

\* a call that found an expired entry for its key has failed, and the
\* expired entry is still there
C35_Witness ==
    \E t \in Threads :
        /\ callers[t].pc = "idle"
        /\ callers[t].raised
        /\ callers[t].key \in DOMAIN cache
        /\ callers[t].now - cache[callers[t].key].ts > CACHE_TTL_SECONDS
        /\ last_call_ts >= callers[t].now

====
